---- MODULE Spec2Model ----
(***************************************************************************)
(* Model of moji_exporter.py: main() and its nested _export_one_folder().  *)
(* The program is one sequential process; pc is its position.  The remote  *)
(* service is the environment: every gateway call returns an answer drawn  *)
(* from a small set.                                                       *)
(***************************************************************************)
EXTENDS Integers, Sequences, FiniteSets, Bags, TLC

VARIABLES
    args,                    \* parsed command line (never assigned after parsing)
    library,                 \* the items saved in the account (remote state)
    pc,                      \* position of main()
    exit_status,             \* -1 while running, else the process exit status
    error,                   \* the failure the process reported, "" if none
    folders,                 \* list returned by fetchMyFolders
    export_folders,          \* list of <<fid, title>>
    allowed_types,
    active_sort_types,
    fi, si,                  \* positions of the two for-loops of main()
    word_cache,
    seen_item_ids_global,
    printed_total,
    stop_everything,
    results_by_id,
    page_index,              \* locals of _export_one_folder
    total_pages,             \* 0 stands for None
    no_new_streak,
    seen_item_ids_in_folder,
    items,                   \* items of the fetched page not yet iterated
    new_any_in_page,
    json_file,               \* the file at the --output path in --json mode
    tmp_file,                \* the file at the path --output + ".tmp"
    calls,                   \* log of the gateway calls issued so far
    accepted,                \* bag of the records accepted so far (either sink)
    hist                     \* observations about the pages of the current pair

vars == <<args, library, pc, exit_status, error, folders, export_folders, allowed_types,
          active_sort_types, fi, si, word_cache, seen_item_ids_global,
          printed_total, stop_everything, results_by_id, page_index,
          total_pages, no_new_streak, seen_item_ids_in_folder, items,
          new_any_in_page, json_file, tmp_file, calls, accepted, hist>>

-----------------------------------------------------------------------------
(* Bounds of the model *)

\* page fetches the modelled service answers in one run
MaxFetches == 5

-----------------------------------------------------------------------------
(* Values *)

Max(a, b) == IF a >= b THEN a ELSE b

\* str.strip() on the strings of the model: " " is the only padded string
Strip(s) == IF s = " " THEN "" ELSE s

\* Python's `a or b` on strings
Or(a, b) == IF a # "" THEN a ELSE b

Range(s) == {s[i] : i \in 1..Len(s)}

SeqsUpTo(S, n) == UNION {[1..k -> S] : k \in 0..n}

-----------------------------------------------------------------------------
(* Raw items of a folder page.  A raw item is {targetType, target}; isDict  *)
(* is FALSE for an item whose "target" is not an object.  A missing string  *)
(* field is "".                                                             *)

Target(oid, wid, title, ntitle, spell, pron, excerpt) ==
    [objectId |-> oid, id |-> "", wordId |-> wid, title |-> title,
     notationTitle |-> ntitle, trans |-> "", spell |-> spell, pron |-> pron,
     accent |-> "", excerpt |-> excerpt]

RawItem(tt, isDict, target) == [targetType |-> tt, isDict |-> isDict, target |-> target]

\* a sentence that references word "w"
ItemS1 == RawItem(103, TRUE, Target("a", "w", "jp1", "", "", "", ""))
\* a sentence without objectId and without wordId (identity by fallback)
ItemS2 == RawItem(103, TRUE, Target("", "", "jp2", "", "", "", "tr2"))
\* a voice sentence with no title, only a notationTitle
ItemS3 == RawItem(120, TRUE, Target("b", "", "", "nt3", "", "", ""))
\* a sentence of word "w" whose title is blank
ItemS4 == RawItem(103, TRUE, Target("c", "w", " ", "nt4", "", "", ""))
\* the sentence "c" as the service returns it once its title is filled in
ItemS5 == RawItem(103, TRUE, Target("c", "w", "jp5", "nt4", "", "", ""))
\* a word lacking its inline fields; its own id is "w"
ItemW1 == RawItem(102, TRUE, Target("w", "", "", "", "", "", ""))
\* a word with inline fields
ItemW2 == RawItem(102, TRUE, Target("d", "", "", "", "sp2", "pr2", "ex2"))
\* a word with an inline spell and excerpt but no pron
ItemW3 == RawItem(102, TRUE, Target("g", "", "", "", "sp3", "", "ex3"))
\* a word without any id, with an excerpt only
ItemW4 == RawItem(102, TRUE, Target("", "", "", "", "", "", "ex4"))
\* a bookmark (targetType 10)
ItemO1 == RawItem(10, TRUE, Target("e", "", "link", "", "", "", ""))
\* an item whose target is not an object
ItemB1 == RawItem(103, FALSE, Target("", "", "", "", "", "", ""))

Items == {ItemS1, ItemS2, ItemS3, ItemS4, ItemW1, ItemW2, ItemO1, ItemB1}

SentenceTypes == {103, 120}
WordType == 102

\* lines 739-742: the Item Identity
ItemId(target) ==
    IF Or(target.objectId, target.id) # ""
    THEN Or(target.objectId, target.id)
    ELSE target.wordId \o "::" \o target.title

ItemIdS(it) == ToString(it.targetType) \o ":" \o ItemId(it.target)

-----------------------------------------------------------------------------
(* Answers of the remote service *)

\* word/detailInfo: a response with the nested "word" object, one without
\* it, or an exception raised by _http_get_json
WordOk == [word |-> [spell |-> "sp", pron |-> "pr", accent |-> "ac", excerpt |-> "ex"]]
WordNoStruct == [message |-> "not found"]
WordError == [error |-> "HTTP 500"]

WordDetailOutcomes ==
    {[raised |-> FALSE, resp |-> WordOk],
     [raised |-> FALSE, resp |-> WordNoStruct],
     [raised |-> TRUE, resp |-> WordError]}

\* Raw bodies of a /functions/<name> call: a body without "result",
\* {"result": null}, {"result": {...}}, {"result": [...]}, or a "result" that
\* is neither (a number, a string).  In a payload, `result` and `isList` are
\* what .get("result") gives and whether it is a list; totalPage is "" and
\* pageIndex is 0 when the payload has none; a payload may lack "code".
AbsentBody == [kind |-> "absent"]
NullBody == [kind |-> "null"]
DictBody(payload) == [kind |-> "dict", payload |-> payload]
ListBody(list) == [kind |-> "list", list |-> list]
ScalarBody ==
    [kind |-> "scalar", result |-> <<>>, isList |-> FALSE, totalPage |-> "", pageIndex |-> 0]

\* variant of _unwrap_parse_result: a null result counts as an empty success
_unwrap_parse_result_nullok(resp) ==
    CASE resp.kind \in {"absent", "null"} ->
            [code |-> 200, result |-> <<>>, isList |-> TRUE, totalPage |-> "", pageIndex |-> 0]
      [] resp.kind = "dict" -> resp.payload
      [] resp.kind = "list" ->
            [code |-> 200, result |-> resp.list, isList |-> TRUE, totalPage |-> "",
             pageIndex |-> 0]
      [] OTHER -> resp

\* lines 250-263
_unwrap_parse_result(resp) ==
    CASE resp.kind \in {"absent", "null"} ->
            [code |-> -1, message |-> "Parse returned null result", raw |-> resp,
             result |-> <<>>, isList |-> FALSE, totalPage |-> "", pageIndex |-> 0]
      [] resp.kind = "dict" -> resp.payload
      [] resp.kind = "list" ->
            [code |-> 200, result |-> resp.list, isList |-> TRUE, totalPage |-> "",
             pageIndex |-> 0]
      [] OTHER -> resp

\* a {"result": {...}} body of a failed call: an envelope with a code other
\* than 200, or an object without "code"
FailureBodies ==
    {DictBody([code |-> 500, result |-> <<>>, isList |-> FALSE, totalPage |-> "",
               pageIndex |-> 0]),
     DictBody([result |-> <<>>, isList |-> TRUE, totalPage |-> "", pageIndex |-> 0])}

Folder(fid, title) == [id |-> fid, title |-> title]
\* a folder without an id
F0 == Folder(" ", "no id")
F1 == Folder("f1", "vocab")
F2 == Folder("f2", "my sentences")

FolderLists == {<<>>, <<F0>>, <<F0, F1, F2>>}

\* bodies fetchMyFolders may answer with
FoldersBodies ==
    {AbsentBody, NullBody, ScalarBody} \cup FailureBodies
    \cup {ListBody(l) : l \in FolderLists}
    \cup {DictBody([code |-> 200, result |-> l, isList |-> TRUE, totalPage |-> ""]) : l \in FolderLists}

\* the "totalPage" of a page response, as its JSON text: absent, 0, 1, 2 or
\* a text that is not a number
TotalPageVals == {"", "0", "1", "2", "x"}

\* the "pageIndex" of a page response
ServerPageVals == {1, 2}

\* the (totalPage, pageIndex) of the page responses of the model
PageMetaVals == {m \in TotalPageVals \X ServerPageVals : m[2] = 1 \/ m[1] = "2"}

\* bodies folder-fetchContentWithRelatives may answer with: a failure, or a
\* page of at most `count` of the saved items, in any order, with repetitions,
\* with a page index of its own
ContentBodies(saved, count) ==
    {AbsentBody, NullBody, ScalarBody} \cup FailureBodies
    \cup {DictBody([code |-> 200, result |-> l, isList |-> TRUE, totalPage |-> m[1],
                    pageIndex |-> m[2]]) :
            l \in SeqsUpTo(saved, count), m \in PageMetaVals}

-----------------------------------------------------------------------------
(* Command lines of the model *)

Modes == {"sentences", "words", "both"}

\* The command lines: the options of lines 309-400 the run reads.  `count` is
\* the page size asked for; --target-types is not given.  A list option is the
\* sequence of its comma-separated parts.
ArgsSet ==
    [fetch_all : BOOLEAN, json_output : BOOLEAN, all_folders : BOOLEAN,
     folder_id : {""}, pfid : {"", "root"}, page : {1}, count : {2}, limit : {1, 2},
     mode : Modes, target_types : {<<>>}, sort_type : {0},
     sort_types : {<<>>, <<"0-1", " ", "1">>},
     max_pages : {0, 1, 2}, stop_after_no_new : {2}, expected : {0, 1, 2}]

\* Single-page runs over the whole account
SinglePageRuns ==
    {[args |-> a, library |-> Items] : a \in {a \in ArgsSet :
        /\ ~a.fetch_all /\ ~a.json_output /\ ~a.all_folders
        /\ a.sort_types = <<>> /\ a.max_pages = 0
        /\ a.expected \in {0, 1}
        /\ (a.expected = 1 => a.limit = 2)
        /\ (a.pfid # "" => a.mode = "both" /\ a.expected = 0 /\ a.limit = 1)}}

\* --all runs over several (folder, sortType) pairs, one page per pair
ManyPairRuns ==
    {[args |-> a, library |-> {ItemS1, ItemS2, ItemW1, ItemO1}] : a \in {a \in ArgsSet :
        /\ a.fetch_all /\ a.pfid = "" /\ a.limit = 1
        /\ a.max_pages = 1
        /\ (a.all_folders \/ a.sort_types # <<>>)
        /\ a.mode = "both"}}

\* --all runs that page through one (folder, sortType) pair
DeepRuns ==
    {[args |-> a, library |-> l] :
      l \in {{ItemS1, ItemO1}, {ItemS1, ItemS2}, {ItemS4, ItemS5}},
      a \in {a \in ArgsSet :
        /\ a.fetch_all /\ ~a.all_folders /\ a.pfid = ""
        /\ a.sort_types = <<>> /\ a.limit = 1
        /\ a.max_pages \in {0, 2}
        /\ a.expected \in {0, 2}
        /\ a.mode \in {"sentences", "words"}}}

\* --all runs that start at page 3 (--page 3)
LatePageRuns ==
    {[args |-> [a EXCEPT !.page = 3], library |-> {ItemS1, ItemS2}] : a \in {a \in ArgsSet :
        /\ a.fetch_all /\ ~a.json_output /\ ~a.all_folders /\ a.pfid = ""
        /\ a.sort_types = <<>> /\ a.limit = 1
        /\ a.max_pages \in {0, 2}
        /\ a.expected = 0
        /\ a.mode = "sentences"}}

\* --all runs with a cap of two pages and --stop-after-no-new 4
CappedRuns ==
    {[args |-> [a EXCEPT !.stop_after_no_new = 4], library |-> {ItemS1, ItemS2}] :
      a \in {a \in ArgsSet :
        /\ a.fetch_all /\ ~a.json_output /\ ~a.all_folders /\ a.pfid = ""
        /\ a.sort_types = <<>> /\ a.limit = 1
        /\ a.max_pages = 2
        /\ a.expected = 0
        /\ a.mode = "sentences"}}

\* single-page runs with --limit 0 and --limit -1, with and without
\* --sort-types 1..0 and --expected 1
OnePageOptionRuns ==
    {[args |-> [a EXCEPT !.limit = l, !.sort_types = st],
      library |-> {ItemS1, ItemS2, ItemW1}] :
      l \in {-1, 0},
      st \in {<<>>, <<"1..0">>},
      a \in {a \in ArgsSet :
        /\ ~a.fetch_all /\ ~a.json_output /\ ~a.all_folders /\ a.pfid = ""
        /\ a.sort_types = <<>> /\ a.limit = 1
        /\ a.max_pages = 0
        /\ a.expected \in {0, 1}
        /\ a.mode = "both"}}

\* --all runs with --stop-after-no-new 1, 0 and -1, without a page cap
LowThresholdRuns ==
    {[args |-> [a EXCEPT !.stop_after_no_new = v], library |-> {ItemS1, ItemO1}] :
      v \in {-1, 0, 1},
      a \in {a \in ArgsSet :
        /\ a.fetch_all /\ ~a.json_output /\ ~a.all_folders /\ a.pfid = ""
        /\ a.sort_types = <<>> /\ a.limit = 1
        /\ a.max_pages = 0
        /\ a.expected = 0
        /\ a.mode = "sentences"}}

\* --all runs over two (folder, sortType) pairs with a cap of two pages per
\* pair: one folder with --sort-types 0-1, ,1 or --sort-types 1..0, and
\* --all-folders with --sort-types 1
PagedPairRuns ==
    {sc \in {[args |-> [a EXCEPT !.sort_types = st], library |-> {ItemS1}] :
               st \in {<<"0-1", " ", "1">>, <<"1..0">>, <<"1">>},
               a \in {a \in ArgsSet :
                 /\ a.fetch_all /\ ~a.json_output /\ a.pfid = "" /\ a.limit = 1
                 /\ a.sort_types # <<>>
                 /\ a.max_pages = 2
                 /\ a.expected = 0
                 /\ a.mode = "sentences"}} :
        sc.args.all_folders = (sc.args.sort_types = <<"1">>)}

\* --all-folders without --all, and --all-folders together with --folder-id
AllFoldersRuns ==
    {[args |-> a, library |-> {ItemS1, ItemW1}] : a \in {a \in ArgsSet :
        /\ ~a.fetch_all /\ ~a.json_output /\ a.all_folders
        /\ a.sort_types = <<>> /\ a.max_pages = 0 /\ a.expected = 0
        /\ a.limit = 2 /\ a.mode = "both"}}
    \cup
    {[args |-> [a EXCEPT !.folder_id = "f1"], library |-> {ItemS1, ItemW1}] :
      a \in {a \in ArgsSet :
        /\ a.fetch_all /\ ~a.json_output /\ a.all_folders /\ a.pfid = ""
        /\ a.sort_types = <<>> /\ a.max_pages = 1 /\ a.expected = 0
        /\ a.limit = 2 /\ a.mode = "both"}}

\* single-page runs with --json
JsonPageRuns ==
    {[args |-> a, library |-> {ItemS1, ItemW1, ItemO1}] : a \in {a \in ArgsSet :
        /\ ~a.fetch_all /\ a.json_output /\ ~a.all_folders /\ a.pfid = ""
        /\ a.sort_types = <<>> /\ a.max_pages = 0 /\ a.expected = 0
        /\ a.mode = "both"}}

\* runs with --target-types 102, ,10: the list overrides --mode
ExplicitTypeRuns ==
    {[args |-> [a EXCEPT !.target_types = <<"102", " ", "10">>],
      library |-> {ItemS1, ItemW2, ItemW3, ItemW4, ItemO1}] : a \in {a \in ArgsSet :
        /\ ~a.fetch_all /\ ~a.json_output /\ ~a.all_folders /\ a.pfid = ""
        /\ a.sort_types = <<>> /\ a.max_pages = 0 /\ a.expected = 0
        /\ a.limit = 2 /\ a.mode = "both"}}

\* runs whose --target-types or --sort-types holds an entry int() rejects
MalformedRuns ==
    {[args |-> [a EXCEPT !.target_types = c[1], !.sort_types = c[2]],
      library |-> {ItemS1}] :
        a \in {a \in ArgsSet :
            /\ ~a.json_output /\ ~a.all_folders /\ a.limit = 1 /\ a.mode = "both"
            /\ a.sort_types = <<>> /\ a.max_pages = 0 /\ a.expected = 0},
        c \in {<<<<"x">>, <<>>>>, <<<<>>, <<"0", "x">>>>, <<<<"102", "x">>, <<"1..0", "x">>>>}}

Scenarios ==
    SinglePageRuns \cup ManyPairRuns \cup DeepRuns \cup LatePageRuns \cup CappedRuns
    \cup LowThresholdRuns \cup OnePageOptionRuns
    \cup PagedPairRuns \cup AllFoldersRuns
    \cup JsonPageRuns
    \cup ExplicitTypeRuns \cup MalformedRuns

\* lines 631-665: the entries in order, without repetitions
RECURSIVE Uniq(_, _)
Uniq(s, seen) ==
    IF s = <<>> THEN <<>>
    ELSE IF Head(s) \in seen THEN Uniq(Tail(s), seen)
         ELSE <<Head(s)>> \o Uniq(Tail(s), seen \cup {Head(s)})

\* int(part) on the parts of the model: the value, for the parts int() accepts
IntOf == ("0" :> 0) @@ ("1" :> 1) @@ ("10" :> 10) @@ ("102" :> 102)
IsInt(part) == part \in DOMAIN IntOf

\* lines 641-645: raw.partition("-") of the parts that hold ".." or "-"
Partition == ("0-1" :> <<"0", "1">>) @@ ("1..0" :> <<"1", "0">>)

\* line 650: list(range(a_i, b_i + step, step))
Span(a_i, b_i) ==
    [i \in 1..((IF a_i <= b_i THEN b_i - a_i ELSE a_i - b_i) + 1) |->
        IF a_i <= b_i THEN a_i + (i - 1) ELSE a_i - (i - 1)]

\* lines 635-656: `out`, or ok = FALSE when an entry raises SystemExit
RECURSIVE SortParts(_)
SortParts(parts) ==
    IF parts = <<>> THEN [ok |-> TRUE, out |-> <<>>]
    ELSE LET part == Strip(Head(parts))
             rest == SortParts(Tail(parts))
             this == IF part \in DOMAIN Partition
                        /\ IsInt(Partition[part][1]) /\ IsInt(Partition[part][2])
                     THEN [ok |-> TRUE,
                           out |-> Span(IntOf[Partition[part][1]], IntOf[Partition[part][2]])]
                     ELSE IF IsInt(part) THEN [ok |-> TRUE, out |-> <<IntOf[part]>>]
                     ELSE [ok |-> FALSE, out |-> <<>>]
         IN IF part = "" THEN rest
            ELSE IF this.ok /\ rest.ok THEN [ok |-> TRUE, out |-> this.out \o rest.out]
            ELSE [ok |-> FALSE, out |-> <<>>]

\* lines 631-665
_parse_sort_types(s) ==
    [ok |-> SortParts(s).ok, list |-> Uniq(SortParts(s).out, {})]

\* lines 667-671
ActiveSortTypes(a) ==
    IF a.fetch_all /\ _parse_sort_types(a.sort_types).list # <<>>
    THEN _parse_sort_types(a.sort_types).list
    ELSE <<a.sort_type>>

\* lines 562-574: the set of the entries ({} stands for None), or ok = FALSE
\* when an entry raises SystemExit
RECURSIVE _parse_target_types(_)
_parse_target_types(s) ==
    IF s = <<>> THEN [ok |-> TRUE, out |-> {}]
    ELSE LET part == Strip(Head(s))
             rest == _parse_target_types(Tail(s))
         IN IF part = "" THEN rest
            ELSE IF IsInt(part) /\ rest.ok
                 THEN [ok |-> TRUE, out |-> {IntOf[part]} \cup rest.out]
                 ELSE [ok |-> FALSE, out |-> {}]

\* lines 576-585
AllowedTypes(a) ==
    LET explicit_types == _parse_target_types(a.target_types).out
    IN IF explicit_types # {} THEN explicit_types
       ELSE CASE a.mode = "sentences" -> {120, 103}
              [] a.mode = "words" -> {102}
              [] OTHER -> {102, 103, 120}

NoHist == [page |-> {}, n |-> 0, repeats |-> 0, fresh |-> FALSE, prev_fresh |-> FALSE,
           total_at_start |-> 0, global_empty |-> FALSE, done |-> FALSE,
           server_page_index |-> 0, late_total |-> <<>>]

NoCalls == [folders |-> <<>>, content |-> <<>>, word |-> EmptyBag]

\* a path at which no file exists
NoFile == [exists |-> FALSE]

Init ==
    /\ \E sc \in Scenarios : args = sc.args /\ library = sc.library
    /\ pc = "fetchMyFolders"
    /\ exit_status = -1
    /\ error = ""
    /\ folders = <<>>
    /\ export_folders = <<>>
    /\ allowed_types = {}
    /\ active_sort_types = <<>>
    /\ fi = 1
    /\ si = 1
    /\ word_cache = <<>>
    /\ seen_item_ids_global = {}
    /\ printed_total = 0
    /\ stop_everything = FALSE
    /\ results_by_id = <<>>
    /\ page_index = 0
    /\ total_pages = 0
    /\ no_new_streak = 0
    /\ seen_item_ids_in_folder = {}
    /\ items = <<>>
    /\ new_any_in_page = 0
    /\ json_file = NoFile
    /\ tmp_file = NoFile
    /\ calls = NoCalls
    /\ accepted = EmptyBag
    /\ hist = NoHist

traversal == <<page_index, total_pages, no_new_streak, seen_item_ids_in_folder,
               items, new_any_in_page, hist>>
sinks == <<word_cache, seen_item_ids_global, printed_total, stop_everything,
           results_by_id, json_file, tmp_file, accepted>>
selection == <<folders, export_folders, allowed_types, active_sort_types, fi, si>>

running == <<exit_status, error>>

\* `return status` of main(), or an exception that leaves main()
Exit(status, message) == pc' = "exit" /\ exit_status' = status /\ error' = message

-----------------------------------------------------------------------------
(* 1) Folder discovery, lines 459-497 *)

\* variant of CodeFailed: the code of the envelope is not looked at
CodeFailed_never(payload) == FALSE

\* lines 473, 496 and 704: payload.get("code", 0)
CodeOf(payload) == IF "code" \in DOMAIN payload THEN payload.code ELSE 0

\* lines 473 and 704: the envelope is a failure
CodeFailed(payload) == CodeOf(payload) # 200

\* variant of NeedFallback: the retry does not look at --pfid
NeedFallback_noparam(list) == Len(list) = 0

\* line 486
NeedFallback(list) == args.pfid # "" /\ Len(list) = 0

FolderCall(param, payload) ==
    [pfid |-> param, code |-> CodeOf(payload), ok |-> CodeOf(payload) = 200 /\ payload.isList,
     n |-> Len(payload.result)]

\* lines 473-482: the first fetchMyFolders call failed
DiscoveryFailed(payload) == CodeFailed(payload) \/ ~payload.isList

FetchMyFolders ==
    /\ pc = "fetchMyFolders"
    /\ \E body \in FoldersBodies :
        LET folders_payload == _unwrap_parse_result(body) IN
        /\ calls' = [calls EXCEPT !.folders = Append(@, FolderCall(args.pfid, folders_payload))]
        /\ IF DiscoveryFailed(folders_payload)
           THEN Exit(1, "fetchMyFolders failed") /\ UNCHANGED folders
           ELSE /\ folders' = folders_payload.result
                /\ pc' = IF NeedFallback(folders_payload.result) THEN "fallback" ELSE "select"
                /\ UNCHANGED running
    /\ UNCHANGED <<args, library, export_folders, allowed_types, active_sort_types, fi, si,
                   sinks, traversal>>

FetchMyFoldersFallback ==
    /\ pc = "fallback"
    /\ \E body \in FoldersBodies :
        LET folders_payload2 == _unwrap_parse_result(body) IN
        /\ calls' = [calls EXCEPT !.folders = Append(@, FolderCall("", folders_payload2))]
        /\ folders' = IF ~CodeFailed(folders_payload2) /\ folders_payload2.isList
                      THEN folders_payload2.result ELSE folders
    /\ pc' = "select"
    /\ UNCHANGED <<args, library, running, export_folders, allowed_types, active_sort_types,
                   fi, si, sinks, traversal>>

-----------------------------------------------------------------------------
(* Folder selection, lines 505-555, and the setup of lines 576-599, 667-671 *)

\* lines 287-291 and 294-295
_folder_id_of(f) == Strip(f.id)
_folder_title_of(f) == Strip(f.title)

\* line 281 on the titles of the model: the ASCII keywords "sentence" and
\* "sentences" both occur in "my sentences" and in no other title
keywords == <<"sentence", "sentences">>
KeywordIn(kw, title) == title = "my sentences"

FirstIndex(s, P(_)) ==
    IF \E i \in 1..Len(s) : P(s[i])
    THEN CHOOSE i \in 1..Len(s) : P(s[i]) /\ \A j \in 1..(i - 1) : ~P(s[j])
    ELSE 0

\* lines 266-284: <<>> stands for None, otherwise a one-element list
_pick_folder(fs) ==
    IF fs = <<>> THEN <<>>
    ELSE LET hit(kw) == \E i \in 1..Len(fs) : KeywordIn(kw, fs[i].title)
             k == FirstIndex(keywords, hit)
         IN IF k = 0 THEN <<fs[1]>>
            ELSE LET m(f) == KeywordIn(keywords[k], f.title)
                 IN <<fs[FirstIndex(fs, m)]>>

\* lines 521-528
RECURSIVE WithIds(_)
WithIds(fs) ==
    IF fs = <<>> THEN <<>>
    ELSE IF _folder_id_of(Head(fs)) = "" THEN WithIds(Tail(fs))
         ELSE <<<<_folder_id_of(Head(fs)), _folder_title_of(Head(fs))>>>> \o WithIds(Tail(fs))

\* variant of AllFolders: only the first listed folder is exported
AllFolders_first(fs) == IF WithIds(fs) = <<>> THEN <<>> ELSE <<Head(WithIds(fs))>>

\* lines 519-534
AllFolders(fs) ==
    LET listed == WithIds(fs)
        pfid_s == Strip(args.pfid)
    IN IF args.pfid # "" /\ pfid_s # "" /\ \A i \in 1..Len(listed) : pfid_s # listed[i][1]
       THEN <<<<pfid_s, "(root/pfid)">>>> \o listed
       ELSE listed

\* lines 505-555: the folders to export, <<>> when the run ends with status 1
ExportFolders(fs) ==
    IF args.folder_id # ""
    THEN LET m(f) == _folder_id_of(f) = args.folder_id
             k == FirstIndex(fs, m)
         IN IF k = 0 THEN <<>>
            ELSE <<<<_folder_id_of(fs[k]), Or(_folder_title_of(fs[k]), "(selected)")>>>>
    ELSE IF args.all_folders THEN AllFolders(fs)
    ELSE LET folder == _pick_folder(fs)
         IN IF folder = <<>>
            THEN IF args.pfid # "" THEN <<<<args.pfid, "(root)">>>> ELSE <<>>
            ELSE <<<<_folder_id_of(folder[1]), _folder_title_of(folder[1])>>>>

\* lines 505-671: the folders are selected, then --target-types and
\* --sort-types are parsed
SelectFolders ==
    /\ pc = "select"
    /\ IF ExportFolders(folders) = <<>>
       THEN /\ Exit(1, IF args.folder_id # "" THEN "Folder id not found in fetchMyFolders"
                       ELSE "No folders returned.")
            /\ UNCHANGED <<export_folders, allowed_types, active_sort_types>>
       ELSE IF ~_parse_target_types(args.target_types).ok
       THEN /\ Exit(1, "Invalid --target-types entry")
            /\ export_folders' = ExportFolders(folders)
            /\ UNCHANGED <<allowed_types, active_sort_types>>
       ELSE IF ~_parse_sort_types(args.sort_types).ok
       THEN /\ Exit(1, "Invalid --sort-types entry")
            /\ export_folders' = ExportFolders(folders)
            /\ allowed_types' = AllowedTypes(args)
            /\ UNCHANGED active_sort_types
       ELSE /\ export_folders' = ExportFolders(folders)
            /\ allowed_types' = AllowedTypes(args)
            /\ active_sort_types' = ActiveSortTypes(args)
            /\ pc' = "main_loop"
            /\ UNCHANGED running
    /\ UNCHANGED <<args, library, folders, fi, si, sinks, traversal, calls>>

-----------------------------------------------------------------------------
(* The loops of main(), lines 943-964 *)

\* variant of JsonDocument: uniqueItems counts the identities of the global
\* seen set
JsonDocument_seen(folder, sort_type, page) ==
    [printedTotal |-> printed_total, uniqueItems |-> Cardinality(seen_item_ids_global),
     last |-> [folderId |-> folder[1], sortType |-> sort_type, pageIndex |-> page],
     stopped |-> stop_everything, itemsById |-> results_by_id]

\* lines 601-629: the document written by _rewrite_json_progress
JsonDocument(folder, sort_type, page) ==
    [printedTotal |-> printed_total, uniqueItems |-> Cardinality(DOMAIN results_by_id),
     last |-> [folderId |-> folder[1], sortType |-> sort_type, pageIndex |-> page],
     stopped |-> stop_everything, itemsById |-> results_by_id]

\* a file holding the text of doc: all of it, or a prefix of it while the
\* text is being written
File(doc, complete) == [exists |-> TRUE, complete |-> complete, doc |-> doc]

\* variant of WritePath: the text is written at the output path itself
WritePath_inplace == "out"

\* line 625: the path the text is written at
WritePath == "tmp"

\* lines 625-629: the two paths after the materialize got as far as `stage`:
\* "opened" (line 626, the text not yet written in full), "closed" (after
\* line 628) or "replaced" (after line 629)
FilesAfter(doc, stage) ==
    LET files == [out |-> json_file, tmp |-> tmp_file]
        written == [files EXCEPT ![WritePath] = File(doc, stage # "opened")]
    IN IF stage = "replaced" /\ WritePath # "out"
       THEN [out |-> written[WritePath], tmp |-> NoFile]
       ELSE written

Materialize(doc, stage) ==
    /\ json_file' = FilesAfter(doc, stage).out
    /\ tmp_file' = FilesAfter(doc, stage).tmp

\* variant of _rewrite_json_progress: the output file is never rewritten
_rewrite_json_progress_never(folder, sort_type, page) == UNCHANGED <<json_file, tmp_file>>

\* lines 601-629
_rewrite_json_progress(folder, sort_type, page) ==
    IF args.json_output
    THEN Materialize(JsonDocument(folder, sort_type, page), "replaced")
    ELSE UNCHANGED <<json_file, tmp_file>>

\* variant of PairStart: the progress state of the previous pair is kept
PairStart_kept ==
    [page_index |-> args.page, total_pages |-> total_pages,
     no_new_streak |-> no_new_streak,
     seen_item_ids_in_folder |-> seen_item_ids_in_folder]

\* lines 677-682: the locals of _export_one_folder when it is entered
PairStart ==
    [page_index |-> args.page, total_pages |-> 0, no_new_streak |-> 0,
     seen_item_ids_in_folder |-> {}]

\* lines 943-949 and 677-682: the next (folder, sortType) pair starts
NextPair ==
    /\ pc = "main_loop"
    /\ fi <= Len(export_folders)
    /\ IF export_folders[fi][1] = ""
       THEN /\ fi' = fi + 1
            /\ UNCHANGED <<pc, traversal>>
       ELSE /\ pc' = "page_loop"
            /\ page_index' = PairStart.page_index
            /\ total_pages' = PairStart.total_pages
            /\ no_new_streak' = PairStart.no_new_streak
            /\ seen_item_ids_in_folder' = PairStart.seen_item_ids_in_folder
            /\ items' = <<>>
            /\ new_any_in_page' = 0
            /\ hist' = NoHist
            /\ UNCHANGED fi
    /\ UNCHANGED <<args, library, running, folders, export_folders, allowed_types,
                   active_sort_types, si, sinks, calls>>

\* variant of AfterPair: the sort types are the outer loop, the folders the
\* inner one
AfterPair_sortsouter(f, s) ==
    IF f < Len(export_folders) THEN <<f + 1, s>>
    ELSE IF s < Len(active_sort_types) THEN <<1, s + 1>>
    ELSE <<Len(export_folders) + 1, 1>>

\* lines 943 and 946: the positions <<fi, si>> of the two loops after the
\* pair (f, s): the next sort type, after the last one the next folder
AfterPair(f, s) ==
    IF s < Len(active_sort_types) THEN <<f, s + 1>> ELSE <<f + 1, 1>>

\* lines 935-941 and 950-956: a pair ends, the loops advance
EndPair ==
    /\ pc \in {"end_pair", "returned"}
    /\ IF pc = "end_pair"
       THEN _rewrite_json_progress(export_folders[fi], active_sort_types[si], page_index)
       ELSE UNCHANGED <<json_file, tmp_file>>
    /\ IF stop_everything THEN pc' = "finish" /\ UNCHANGED <<fi, si>>
       ELSE IF ~args.fetch_all /\ si >= Len(active_sort_types)
       THEN pc' = "finish" /\ UNCHANGED <<fi, si>>
       ELSE pc' = "main_loop" /\ fi' = AfterPair(fi, si)[1] /\ si' = AfterPair(fi, si)[2]
    /\ UNCHANGED <<args, library, running, folders, export_folders, allowed_types,
                   active_sort_types, word_cache, seen_item_ids_global, printed_total,
                   stop_everything, results_by_id, accepted, traversal, calls>>

\* lines 958-964
Finish ==
    /\ \/ pc = "finish"
       \/ pc = "main_loop" /\ fi > Len(export_folders)
    /\ _rewrite_json_progress(export_folders[1], active_sort_types[1], args.page)
    /\ Exit(0, "")
    /\ UNCHANGED <<args, library, selection, word_cache, seen_item_ids_global, printed_total,
                   stop_everything, results_by_id, accepted, traversal, calls>>

-----------------------------------------------------------------------------
(* _export_one_folder: one page fetch, lines 684-722 *)

CurrentFolder == export_folders[fi]
CurrentSort == active_sort_types[si]

\* line 712: int(tp) on the reports of the model, for those int() accepts
TotalPageInt == ("0" :> 0) @@ ("1" :> 1) @@ ("2" :> 2)

\* variant of TotalPagesAfter: every positive report replaces the count
TotalPagesAfter_latest(known, tp) ==
    IF tp \in DOMAIN TotalPageInt /\ TotalPageInt[tp] > 0 THEN TotalPageInt[tp] ELSE known

\* lines 709-716: total_pages is taken from the first positive totalPage;
\* tp_i is 0 for None
TotalPagesAfter(known, tp) ==
    LET tp_i == IF tp \in DOMAIN TotalPageInt THEN TotalPageInt[tp] ELSE 0
    IN IF known = 0 /\ tp_i > 0 THEN tp_i ELSE known

\* identities of the items of a page whose target is an object
PageIds(page) == {ItemIdS(page[i]) : i \in {j \in 1..Len(page) : page[j].isDict}}

\* what is observed when a page arrives: its item set and length, whether it
\* repeats the item set of the pair's previous page, whether it holds an
\* identity not yet met in the pair, the page index the service reports
\* (line 915), the totalPage it reports when total_pages is already known
HistAtFetch(page, server_page_index, totalPage) ==
    [page |-> Range(page),
     n |-> Len(page),
     repeats |-> IF hist.page # {} /\ Range(page) = hist.page
                 THEN hist.repeats + 1 ELSE 0,
     fresh |-> PageIds(page) \ seen_item_ids_in_folder # {},
     prev_fresh |-> hist.fresh,
     total_at_start |-> printed_total,
     global_empty |-> seen_item_ids_global = {},
     done |-> FALSE,
     server_page_index |-> server_page_index,
     late_total |-> IF total_pages # 0 THEN <<totalPage>> ELSE <<>>]

\* variant of PageExhausted: an empty page is handled like any other page
PageExhausted_never(page) == FALSE

\* line 721: the page yields no raw item
PageExhausted(page) == page = <<>>

FetchPage ==
    /\ pc = "page_loop"
    /\ IF stop_everything
       THEN pc' = "end_pair" /\ UNCHANGED <<running, traversal, calls>>
       ELSE /\ Len(calls.content) < MaxFetches
            /\ \E body \in ContentBodies(library, args.count) :
                LET content_payload == _unwrap_parse_result(body) IN
                /\ calls' = [calls EXCEPT !.content =
                       Append(@, [fid |-> CurrentFolder[1], sortType |-> CurrentSort,
                                  pageIndex |-> page_index, code |-> CodeOf(content_payload)])]
                /\ IF CodeFailed(content_payload)
                   THEN Exit(1, "folder-fetchContentWithRelatives failed") /\ UNCHANGED traversal
                   ELSE /\ total_pages' = TotalPagesAfter(total_pages, content_payload.totalPage)
                        /\ items' = content_payload.result
                        /\ new_any_in_page' = 0
                        /\ hist' = HistAtFetch(content_payload.result,
                                               content_payload.pageIndex,
                                               content_payload.totalPage)
                        /\ pc' = IF PageExhausted(content_payload.result)
                                 THEN "end_pair" ELSE "items"
                        /\ UNCHANGED <<running, page_index, no_new_streak,
                                       seen_item_ids_in_folder>>
    /\ UNCHANGED <<args, library, selection, sinks>>

-----------------------------------------------------------------------------
(* _export_one_folder: one iteration of `for it in items`, lines 731-886 *)

\* lines 749: the identity was already met in this (folder, sortType) pair
SeenInFolder(id_s) == id_s \in seen_item_ids_in_folder

\* variant of TypeAllowed: the type filter lets every type through
TypeAllowed_any(tt) == TRUE

\* line 754
TypeAllowed(tt) == tt \in allowed_types

\* variant of SeenGlobally: the global dedup is skipped
SeenGlobally_never(id_s) == FALSE

\* line 758
SeenGlobally(id_s) == id_s \in seen_item_ids_global

\* lines 767-770 and 827-828: word_id_s
WordIdS(it) ==
    IF it.targetType \in SentenceTypes THEN it.target.wordId
    ELSE Or(it.target.objectId, it.target.id)

\* lines 830-833: the inline fields of a word item
InlineSpell(target) == Strip(Or(target.spell, target.title))
InlinePron(target) == Strip(target.pron)
InlineAccent(target) == Strip(target.accent)
InlineExcerpt(target) == Strip(target.excerpt)

\* lines 771 and 836: the item consults the word cache
NeedsResolve(it) ==
    CASE it.targetType \in SentenceTypes -> WordIdS(it) # ""
      [] it.targetType = WordType ->
            WordIdS(it) # "" /\ (InlineSpell(it.target) = "" \/ InlinePron(it.target) = "")
      [] OTHER -> FALSE

\* variant of CacheMiss: the cache is never consulted
CacheMiss_always(word_id_s) == TRUE

\* lines 772 and 837
CacheMiss(word_id_s) == word_id_s \notin DOMAIN word_cache

\* lines 773-780 and 838-845: what the cache holds after the lookup `o`
Memoized(o) == IF o.raised THEN WordError ELSE o.resp

\* lines 774 and 839: fetch_word_detail is called for the item
Lookup(it) == NeedsResolve(it) /\ CacheMiss(WordIdS(it))

CacheAfter(it, o) ==
    IF Lookup(it)
    THEN (WordIdS(it) :> Memoized(o)) @@ word_cache
    ELSE word_cache

\* lines 781-785 and 846-852: the fields read from a cached response
NoFields == [spell |-> "", pron |-> "", accent |-> "", excerpt |-> ""]

WordFields(wresp) ==
    IF "word" \in DOMAIN wresp
    THEN [spell |-> Strip(wresp.word.spell), pron |-> Strip(wresp.word.pron),
          accent |-> Strip(wresp.word.accent), excerpt |-> Strip(wresp.word.excerpt)]
    ELSE NoFields

Resolved(it, cache) ==
    IF NeedsResolve(it) THEN WordFields(cache[WordIdS(it)]) ELSE NoFields

\* lines 787-791
JpOf(target) == Strip(Or(target.title, target.notationTitle))
TransOf(target) == Strip(Or(target.trans, target.excerpt))

\* variant of RecordOf: the resolved fields of a word come before its inline
\* fields
RecordOf_resolvedfirst(it, w) ==
    [id |-> ItemIdS(it), targetType |-> it.targetType, itemId |-> ItemId(it.target),
     wordId |-> WordIdS(it),
     spell |-> IF it.targetType \in SentenceTypes THEN w.spell
               ELSE Or(w.spell, InlineSpell(it.target)),
     pron |-> IF it.targetType \in SentenceTypes THEN w.pron
              ELSE Or(w.pron, InlinePron(it.target)),
     jp |-> IF it.targetType \in SentenceTypes THEN JpOf(it.target) ELSE "",
     trans |-> IF it.targetType \in SentenceTypes THEN TransOf(it.target) ELSE "",
     accent |-> IF it.targetType \in SentenceTypes THEN ""
                ELSE Or(w.accent, InlineAccent(it.target)),
     excerpt |-> IF it.targetType \in SentenceTypes THEN ""
                 ELSE Or(w.excerpt, InlineExcerpt(it.target))]

\* lines 793-807 and 854-866: the export record of an item, w its resolved
\* word fields (the fields of both record shapes, "" where a shape has none)
RecordOf(it, w) ==
    IF it.targetType \in SentenceTypes
    THEN [id |-> ItemIdS(it), targetType |-> it.targetType, itemId |-> ItemId(it.target),
          wordId |-> WordIdS(it), spell |-> w.spell, pron |-> w.pron,
          jp |-> JpOf(it.target), trans |-> TransOf(it.target),
          accent |-> "", excerpt |-> ""]
    ELSE [id |-> ItemIdS(it), targetType |-> it.targetType, itemId |-> ItemId(it.target),
          wordId |-> WordIdS(it),
          spell |-> Or(InlineSpell(it.target), w.spell),
          pron |-> Or(InlinePron(it.target), w.pron),
          jp |-> "", trans |-> "",
          accent |-> Or(InlineAccent(it.target), w.accent),
          excerpt |-> Or(InlineExcerpt(it.target), w.excerpt)]

\* variant of YieldsRecord: a sentence needs the spelling of its word
YieldsRecord_needsword(it, w) ==
    CASE it.targetType \in SentenceTypes ->
            RecordOf(it, w).jp # "" /\ (WordIdS(it) = "" \/ w.spell # "")
      [] it.targetType = WordType -> RecordOf(it, w).spell # "" \/ RecordOf(it, w).excerpt # ""
      [] OTHER -> FALSE

\* variant of YieldsRecord: every sentence and every word yields a record
YieldsRecord_always(it, w) == it.targetType \in SentenceTypes \cup {WordType}

\* lines 793 and 854: the item yields a record
YieldsRecord(it, w) ==
    CASE it.targetType \in SentenceTypes -> RecordOf(it, w).jp # ""
      [] it.targetType = WordType -> RecordOf(it, w).spell # "" \/ RecordOf(it, w).excerpt # ""
      [] OTHER -> FALSE

\* variant of ExpectedReached: the comparison is strict
ExpectedReached_strict(total) ==
    args.fetch_all /\ args.expected > 0 /\ total > args.expected

\* lines 820 and 881
ExpectedReached(total) ==
    args.fetch_all /\ args.expected > 0 /\ total >= args.expected

\* variant of LimitReached: --limit is not looked at
LimitReached_never(total) == FALSE

\* variant of LimitReached: --limit also cuts the pages of --all mode
LimitReached_anymode(total) == total >= args.limit

\* line 885
LimitReached(total) == ~args.fetch_all /\ total >= args.limit

\* lines 795-807 and 856-866
JsonRecord(rec) ==
    [rec |-> rec, folder |-> CurrentFolder, sortType |-> CurrentSort]

\* variant of ResultsAfter: the mapping holds the records of the latest pair
\* only
ResultsAfter_latest(results, rec) ==
    LET kept == {id \in DOMAIN results : results[id].folder = CurrentFolder
                                          /\ results[id].sortType = CurrentSort}
    IN (rec.id :> JsonRecord(rec)) @@ [id \in kept |-> results[id]]

\* lines 795 and 856: results_by_id[item_id_s] = {...}
ResultsAfter(results, rec) == (rec.id :> JsonRecord(rec)) @@ results

\* lines 757-886 for an item that passed the type filter and the global dedup
Classify(it, o) ==
    LET cache == CacheAfter(it, o)
        w == Resolved(it, cache)
        rec == RecordOf(it, w)
        yields == YieldsRecord(it, w)
        total == IF yields THEN printed_total + 1 ELSE printed_total
        stop == yields /\ ExpectedReached(total)
    IN
    /\ seen_item_ids_global' = seen_item_ids_global \cup {ItemIdS(it)}
    /\ word_cache' = cache
    /\ calls' = IF Lookup(it)
                THEN [calls EXCEPT !.word = @ (+) SetToBag({WordIdS(it)})]
                ELSE calls
    /\ printed_total' = total
    /\ accepted' = IF yields THEN accepted (+) SetToBag({rec}) ELSE accepted
    /\ results_by_id' = IF yields /\ args.json_output
                        THEN ResultsAfter(results_by_id, rec)
                        ELSE results_by_id
    /\ stop_everything' = (stop_everything \/ stop)
    /\ items' = IF stop \/ LimitReached(total) THEN <<>> ELSE Tail(items)

ProcessItem ==
    /\ pc = "items"
    /\ items # <<>>
    /\ LET it == Head(items)
           id_s == ItemIdS(it)
           continue == /\ items' = Tail(items)
                       /\ UNCHANGED <<word_cache, seen_item_ids_global, printed_total,
                                      stop_everything, results_by_id, accepted, calls>>
       IN
       IF ~it.isDict
       THEN continue /\ UNCHANGED <<seen_item_ids_in_folder, new_any_in_page>>
       ELSE IF args.fetch_all /\ SeenInFolder(id_s)
       THEN continue /\ UNCHANGED <<seen_item_ids_in_folder, new_any_in_page>>
       ELSE /\ IF args.fetch_all
               THEN /\ seen_item_ids_in_folder' = seen_item_ids_in_folder \cup {id_s}
                    /\ new_any_in_page' = new_any_in_page + 1
               ELSE UNCHANGED <<seen_item_ids_in_folder, new_any_in_page>>
            /\ IF ~TypeAllowed(it.targetType) \/ SeenGlobally(id_s)
               THEN continue
               ELSE \E o \in WordDetailOutcomes : Classify(it, o)
    /\ UNCHANGED <<args, library, pc, running, selection, page_index, total_pages,
                   no_new_streak, hist, json_file, tmp_file>>

-----------------------------------------------------------------------------
(* _export_one_folder: after the items of a page, lines 888-933 *)

\* variant of StreakAfter: the streak is never reset
StreakAfter_noreset(streak, new_any) == IF new_any = 0 THEN streak + 1 ELSE streak

\* lines 909-912
StreakAfter(streak, new_any) == IF new_any = 0 THEN streak + 1 ELSE 0

\* variant of StreakStop: the configured value is the threshold as it is
StreakStop_raw(streak) == streak >= args.stop_after_no_new

\* variant of StreakStop: the comparison is strict
StreakStop_strict(streak) == streak > Max(1, args.stop_after_no_new)

\* line 927
StreakStop(streak) == streak >= Max(1, args.stop_after_no_new)

\* variant of TotalReached: the comparison is strict
TotalReached_strict == total_pages # 0 /\ page_index > total_pages

\* line 929
TotalReached == total_pages # 0 /\ page_index >= total_pages

\* variant of CapReached: the operands of the difference are swapped, which
\* leaves a cap of one page and loses every larger cap
CapReached_swapped == args.max_pages > 0 /\ (args.page - page_index + 1) >= args.max_pages

\* variant of CapReached: the first page is not counted
CapReached_late == args.max_pages > 0 /\ (page_index - args.page) >= args.max_pages

\* line 931
CapReached == args.max_pages > 0 /\ (page_index - args.page + 1) >= args.max_pages

\* variant of NextPageIndex: the page after the one the service reported
NextPageIndex_server(p) == hist.server_page_index + 1

\* line 933
NextPageIndex(p) == p + 1

EndPage ==
    /\ pc = "items"
    /\ items = <<>>
    /\ hist' = [hist EXCEPT !.done = TRUE]
    /\ IF stop_everything
       THEN /\ pc' = "end_pair"
            /\ UNCHANGED <<json_file, tmp_file, no_new_streak, page_index>>
       ELSE /\ _rewrite_json_progress(CurrentFolder, CurrentSort, page_index)
            /\ IF ~args.fetch_all
               THEN pc' = "returned" /\ UNCHANGED <<no_new_streak, page_index>>
               ELSE /\ no_new_streak' = StreakAfter(no_new_streak, new_any_in_page)
                    /\ IF \/ StreakStop(no_new_streak')
                          \/ TotalReached
                          \/ CapReached
                       THEN pc' = "end_pair" /\ UNCHANGED page_index
                       ELSE pc' = "page_loop" /\ page_index' = NextPageIndex(page_index)
    /\ UNCHANGED <<args, library, running, selection, word_cache, seen_item_ids_global,
                   printed_total, stop_everything, results_by_id, accepted,
                   total_pages, seen_item_ids_in_folder, items, new_any_in_page, calls>>

-----------------------------------------------------------------------------

Next ==
    \/ FetchMyFolders
    \/ FetchMyFoldersFallback
    \/ SelectFolders
    \/ NextPair
    \/ FetchPage
    \/ ProcessItem
    \/ EndPage
    \/ EndPair
    \/ Finish

Spec == Init /\ [][Next]_vars

\* the run of a process that is scheduled and whose gateway calls return:
\* execution is sequential and synchronous, every step that can be taken is
\* taken
LiveSpec == Spec /\ WF_vars(Next)

-----------------------------------------------------------------------------
(* The run with a process that can be killed *)

\* the document the next step of the run materializes, if it does
PendingDocs ==
    IF ~args.json_output THEN {}
    ELSE IF (pc = "items" /\ items = <<>> /\ ~stop_everything) \/ pc = "end_pair"
    THEN {JsonDocument(CurrentFolder, CurrentSort, page_index)}
    ELSE IF pc = "finish" \/ (pc = "main_loop" /\ fi > Len(export_folders))
    THEN {JsonDocument(export_folders[1], active_sort_types[1], args.page)}
    ELSE {}

\* the process is killed: between two steps of the run, or inside
\* _rewrite_json_progress after line 626 or after line 628
Crash ==
    /\ pc \notin {"exit", "crashed"}
    /\ pc' = "crashed"
    /\ \/ UNCHANGED <<json_file, tmp_file>>
       \/ \E doc \in PendingDocs, stage \in {"opened", "closed"} : Materialize(doc, stage)
    /\ UNCHANGED <<args, library, running, selection, word_cache, seen_item_ids_global,
                   printed_total, stop_everything, results_by_id, accepted, traversal,
                   calls>>

NextCrash == Next \/ Crash

SpecCrash == Init /\ [][NextCrash]_vars

-----------------------------------------------------------------------------
(* Properties *)

AcceptedRecords == BagToSet(accepted)
AcceptedIds == {r.id : r \in AcceptedRecords}
Last(s) == s[Len(s)]
AllPages == args.fetch_all
AtItem == pc = "items" /\ items # <<>>
AtPageEnd == pc = "items" /\ items = <<>>

\* C1: every Item Identity is accepted at most once in a run: no two accepted
\* records share an identity, whatever (folder, sortType, page) returns it.
C1_GlobalDedup ==
    \A r \in AcceptedRecords :
        /\ CopiesIn(r, accepted) = 1
        /\ \A q \in AcceptedRecords : q.id = r.id => q = r

\* an accepted item is returned again by a page of another folder, and the
\* page adds nothing
C1_Witness ==
    /\ AtPageEnd
    /\ Len(calls.content) >= 2
    /\ calls.content[1].fid # Last(calls.content).fid
    /\ printed_total = hist.total_at_start
    /\ \E it \in hist.page : it.isDict /\ ItemIdS(it) \in AcceptedIds

\* C2 as stated, for every mode: with an expected count N > 0 the accepted
\* count never exceeds N.
C2_AnyMode == args.expected > 0 => printed_total <= args.expected

\* C2: in --all mode with an expected count N > 0 the accepted count never
\* exceeds N; the step that accepts the N-th record sets the stop flag and
\* abandons the rest of the page; from then on no gateway call is issued, no
\* item is looked at and no record is accepted.
C2_ExpectedStop ==
    [][(AllPages /\ args.expected > 0) =>
        /\ printed_total' <= args.expected
        /\ (printed_total' = args.expected => stop_everything' /\ items' = <<>>)
        /\ (printed_total >= args.expected =>
              UNCHANGED <<calls, accepted, printed_total, word_cache,
                          seen_item_ids_global, seen_item_ids_in_folder>>)]_vars

\* the run ended normally after the first record stopped it in the middle of
\* the first page, with further pairs left
C2_Witness ==
    /\ exit_status = 0
    /\ AllPages /\ args.expected = 1 /\ printed_total = 1 /\ stop_everything
    /\ hist.n = 2 /\ Cardinality(seen_item_ids_in_folder) = 1
    /\ Len(calls.content) = 1
    /\ Len(export_folders) * Len(active_sort_types) > 1

\* C3: in --all mode, when the handling of a non-empty page reaches the streak
\* update, the streak becomes 0 if the page held an identity not yet in the
\* pair's seen set and grows by one otherwise, whether or not any item passed
\* the type filter or the global dedup.
C3_Streak ==
    [][(AtPageEnd /\ AllPages /\ ~stop_everything) =>
        no_new_streak' = IF hist.fresh THEN 0 ELSE no_new_streak + 1]_vars

\* after a page without new identity, a page of new identities none of which
\* has an allowed type resets the streak
C3_Witness ==
    /\ hist.done /\ AllPages
    /\ ~hist.prev_fresh /\ hist.fresh /\ Len(calls.content) = 3
    /\ \A it \in hist.page : it.targetType \notin allowed_types
    /\ printed_total = 0
    /\ no_new_streak = 0

\* C4: the word-detail endpoint is called at most once per word id; a call is
\* issued only for an id the cache does not hold; an entry of the cache never
\* changes or disappears; a sentence record carries the word fields of the
\* memoized response, a memoized failure included.
C4_WordCache ==
    [][/\ \A w \in DOMAIN word_cache :
            w \in DOMAIN word_cache' /\ word_cache'[w] = word_cache[w]
       /\ \A w \in BagToSet(calls'.word) :
            /\ CopiesIn(w, calls'.word) = 1
            /\ w \in DOMAIN word_cache'
            /\ (CopiesIn(w, calls.word) = 0 => w \notin DOMAIN word_cache)
       /\ DOMAIN word_cache' = BagToSet(calls'.word)
       /\ \A r \in AcceptedRecords' :
            (r.targetType \in SentenceTypes /\ r.wordId # "") =>
                /\ r.wordId \in DOMAIN word_cache'
                /\ r.spell = WordFields(word_cache'[r.wordId]).spell
                /\ r.pron = WordFields(word_cache'[r.wordId]).pron]_vars

\* word "w" was resolved for the sentence ItemS1 and for the word ItemW1 with
\* one call, whose failure was memoized
C4_Witness ==
    /\ {ItemIdS(ItemS1), ItemIdS(ItemW1)} \subseteq seen_item_ids_global
    /\ CopiesIn("w", calls.word) = 1
    /\ "w" \in DOMAIN word_cache /\ word_cache["w"] = WordError
    /\ AtPageEnd

\* C5: the targetType of every accepted record is in the run's allowed set:
\* with {102} no 103 or 120 is accepted, with {103, 120} no 102.
C5_AllowedTypes ==
    \A r \in AcceptedRecords :
        /\ r.targetType \in AllowedTypes(args)
        /\ (args.mode = "words" => r.targetType \notin {103, 120})
        /\ (args.mode = "sentences" => r.targetType # 102)

\* a words-only run accepted a word from a page that also held a sentence
\* with a title
C5_Witness ==
    /\ AtPageEnd
    /\ args.mode = "words"
    /\ AcceptedRecords # {}
    /\ \E it \in hist.page : it.isDict /\ it.targetType = 103 /\ JpOf(it.target) # ""


Threshold2 == Max(1, args.stop_after_no_new) = 2

\* C6: with a no-new threshold of 2, a page whose item set repeats that of
\* the previous page of the pair adds no accepted record; after the second
\* such page in a row the pair is left without another page fetch; after a
\* single one, following a page that brought a new identity, the pair goes on
\* to the next page unless the total page count or the page cap ends it.
C6_RepeatedPages ==
    [][(AllPages /\ Threshold2) =>
        /\ ~(pc' = "page_loop" /\ hist'.repeats >= 2)
        /\ (pc = "items" /\ hist.repeats >= 1 =>
              printed_total' = printed_total /\ accepted' = accepted)
        /\ (AtPageEnd /\ hist.repeats >= 2 => pc' = "end_pair")
        /\ (AtPageEnd /\ hist.repeats = 1 /\ hist.prev_fresh /\ ~stop_everything
                /\ ~TotalReached /\ ~CapReached =>
              pc' = "page_loop" /\ page_index' = page_index + 1)]_vars

\* the pair ended after its second repeated page, with no total page count
\* known and no page cap
C6_Witness ==
    /\ pc = "end_pair" /\ hist.done /\ hist.repeats = 2
    /\ AllPages /\ Threshold2
    /\ total_pages = 0 /\ args.max_pages = 0 /\ ~stop_everything
    /\ printed_total > 0

\* a page of n >= 1 raw items of type 103 with a non-empty jp and pairwise
\* distinct identities, met with allowedTypes = {103, 120} and an empty
\* global seen set, and handled to its end
SentencePageDone ==
    /\ hist.done
    /\ hist.n >= 1
    /\ Cardinality(hist.page) = hist.n
    /\ \A it \in hist.page : it.isDict /\ it.targetType = 103 /\ JpOf(it.target) # ""
    /\ allowed_types = {103, 120}
    /\ hist.global_empty

\* C7 as stated: such a page always yields n accepted records and leaves the
\* streak at 0.
C7_AnyMode ==
    SentencePageDone =>
        /\ printed_total - hist.total_at_start = hist.n
        /\ Cardinality(AcceptedIds) = hist.n
        /\ no_new_streak = 0

\* the page is not cut short: --all mode with the expected count off or
\* above n, or single-page mode with --limit at least n
NotCutShort ==
    \/ AllPages /\ (args.expected = 0 \/ args.expected > hist.n)
    \/ ~AllPages /\ args.limit >= hist.n

\* C7: such a page, when it is not cut short, yields exactly n accepted
\* records, one per item, and leaves the streak at 0.
C7_SentencePage ==
    (SentencePageDone /\ NotCutShort) =>
        /\ printed_total - hist.total_at_start = hist.n
        /\ AcceptedIds = {ItemIdS(it) : it \in hist.page}
        /\ \A r \in AcceptedRecords : CopiesIn(r, accepted) = 1
        /\ no_new_streak = 0

\* a full page of two sentences was accepted whole in --all mode
C7_Witness ==
    /\ SentencePageDone /\ NotCutShort /\ AllPages
    /\ hist.n = args.count
    /\ printed_total = 2

\* C8: a second fetchMyFolders call is made exactly when --pfid is non-empty
\* and the first call succeeded with an empty list; it is the only further
\* call and carries no pfid.
C8_Fallback ==
    LET fc == calls.folders IN
    /\ Len(fc) <= 2
    /\ (Len(fc) >= 1 => fc[1].pfid = args.pfid)
    /\ (Len(fc) = 2 => fc[2].pfid = "")
    /\ (pc \notin {"fetchMyFolders", "fallback"} =>
          (Len(fc) = 2 <=> (args.pfid # "" /\ fc[1].ok /\ fc[1].n = 0)))
    /\ (pc = "fallback" => Len(fc) = 1 /\ args.pfid # "" /\ fc[1].ok /\ fc[1].n = 0)

\* the fallback call was made and found the folders
C8_Witness ==
    /\ Len(calls.folders) = 2
    /\ calls.folders[1].pfid = "root" /\ calls.folders[2].pfid = ""
    /\ calls.folders[2].n > 0
    /\ pc = "main_loop"

\* the last folder-fetchContentWithRelatives call got a non-success envelope
ContentFailed == calls.content # <<>> /\ Last(calls.content).code # 200

\* C9: a page fetch answered with a code other than 200 ends the run at once
\* with a failure status; nothing happens afterwards: no retry, no gateway
\* call, no accepted record.
C9_FetchFatal ==
    [][/\ ContentFailed' => pc' = "exit" /\ exit_status' = 1
       /\ ContentFailed' /\ ~ContentFailed =>
            UNCHANGED <<accepted, printed_total, results_by_id, word_cache, json_file,
                        tmp_file>>
       /\ ~ContentFailed]_vars

\* the second page fetch failed after the first page had yielded a record
C9_Witness ==
    /\ ContentFailed
    /\ Len(calls.content) = 2 /\ calls.content[1].code = 200
    /\ printed_total > 0
    /\ exit_status = 1

\* the item at hand reaches classification
Classified(it) ==
    /\ it.isDict
    /\ (AllPages => ItemIdS(it) \notin seen_item_ids_in_folder)
    /\ it.targetType \in allowed_types
    /\ ItemIdS(it) \notin seen_item_ids_global

\* the cache holds a response for w that lacks the word structure
FailedLookup(cache, w) == w \in DOMAIN cache /\ "word" \notin DOMAIN cache[w]

\* C10: when the word lookup of a classified item has failed (an error, or a
\* response without the word structure), the run does not end and stays in
\* the item loop; a sentence-like item with a non-empty jp is accepted with
\* empty word fields, a word item keeps its inline fields only.
C10_SoftFail ==
    [][AtItem =>
        LET it == Head(items)
            t == it.target
            w == IF it.targetType \in SentenceTypes THEN t.wordId ELSE t.objectId
            new == AcceptedRecords' \ AcceptedRecords
        IN (Classified(it) /\ NeedsResolve(it) /\ FailedLookup(word_cache', w)) =>
            /\ exit_status' = -1 /\ pc' = "items"
            /\ items' = Tail(items) \/ items' = <<>>
            /\ (it.targetType \in SentenceTypes /\ JpOf(t) # "" =>
                  /\ printed_total' = printed_total + 1
                  /\ \E r \in new : r.id = ItemIdS(it) /\ r.jp = JpOf(t)
                                    /\ r.spell = "" /\ r.pron = "")
            /\ (it.targetType = WordType =>
                  \A r \in new : r.spell = InlineSpell(t) /\ r.pron = InlinePron(t)
                                 /\ r.excerpt = InlineExcerpt(t))]_vars

\* the sentence ItemS1 was accepted without word fields after the lookup of
\* "w" raised, and the run went on to a further page and ended normally
C10_Witness ==
    /\ "w" \in DOMAIN word_cache /\ word_cache["w"] = WordError
    /\ \E r \in AcceptedRecords : r.id = ItemIdS(ItemS1) /\ r.spell = "" /\ r.pron = ""
    /\ Len(calls.content) >= 2
    /\ exit_status = 0

\* a fetchMyFolders call, the first or the fallback, got a non-success envelope
DiscoveryCallFailed == \E i \in 1..Len(calls.folders) : calls.folders[i].code # 200

\* C11: when a folder-discovery call, the first one or the fallback without
\* pfid, returns a non-success envelope, no page fetch is ever issued and the
\* run ends with a failure status.
C11_DiscoveryFatal ==
    DiscoveryCallFailed =>
        /\ calls.content = <<>>
        /\ (pc = "exit" => exit_status = 1)

\* the run ended on an entry of --target-types or --sort-types that is not
\* a number
ValidationError ==
    pc = "exit" /\ error \in {"Invalid --target-types entry", "Invalid --sort-types entry"}

\* C12: when the run ends with a validation error, no gateway call was
\* issued in that run.
C12_ValidationFirst ==
    ValidationError =>
        calls.folders = <<>> /\ calls.content = <<>> /\ calls.word = EmptyBag

JsonMode == args.json_output

\* the file f is a complete document holding exactly the records of `sink`
\* (results_by_id), which are the records accepted so far in `bag`
Holds(f, sink, bag) ==
    /\ f.exists /\ f.complete
    /\ f.doc.itemsById = sink
    /\ f.doc.uniqueItems = Cardinality(DOMAIN sink)
    /\ {sink[id].rec : id \in DOMAIN sink} = BagToSet(bag)
    /\ \A id \in DOMAIN sink : sink[id].rec.id = id

\* C13: in --json mode, when a page fetch is issued after an earlier page of
\* the run, the output file already holds every record accepted so far; when
\* the run ends normally the output file holds exactly the accepted records,
\* their count and the final stop flag.
C13_Materialized ==
    [][JsonMode =>
        /\ (calls'.content # calls.content /\ calls.content # <<>> =>
              Holds(json_file, results_by_id, accepted))
        /\ (exit_status' = 0 =>
              /\ Holds(json_file', results_by_id', accepted')
              /\ json_file'.doc.stopped = stop_everything'
              /\ json_file'.doc.printedTotal = printed_total')]_vars

\* a --json run ended normally after the expected count stopped it on its
\* second page, and the output file holds both records and the stop flag
C13_Witness ==
    /\ JsonMode /\ exit_status = 0
    /\ Len(calls.content) = 2
    /\ stop_everything /\ printed_total = 2
    /\ Holds(json_file, results_by_id, accepted)
    /\ json_file.doc.stopped

\* the (folder, sortType, page) of the page fetched last
LastProcessed ==
    [folderId |-> Last(calls.content).fid, sortType |-> Last(calls.content).sortType,
     pageIndex |-> Last(calls.content).pageIndex]

\* C14: in --json mode every document written to the output file, the one
\* written at the end of the run included, names in its metadata the folder,
\* sort type and page index processed last.
C14_LastProcessed ==
    [][(JsonMode /\ json_file' # json_file /\ calls.content # <<>>) =>
        json_file'.doc.last = LastProcessed']_vars

\* C15: the file at the output path is at every moment absent or a complete
\* document, also when the process is killed inside a materialize: the output
\* path only ever changes to the complete document of the materialize under
\* way, and a kill leaves it as it was.
C15_Atomic ==
    [][/\ (json_file'.exists => json_file'.complete)
       /\ (json_file' # json_file => json_file' \in {File(doc, TRUE) : doc \in PendingDocs})
       /\ (pc' = "crashed" => json_file' = json_file)]_vars

\* the process was killed while it wrote a document to the temporary path,
\* and the output path still holds the complete document written before
C15_Witness ==
    /\ pc = "crashed"
    /\ tmp_file.exists /\ ~tmp_file.complete
    /\ json_file.exists /\ json_file.complete
    /\ json_file.doc # tmp_file.doc

\* the ids of the folders the content of which was fetched
FetchedFolders == {calls.content[i].fid : i \in 1..Len(calls.content)}

\* every discovered folder with a non-empty id had its content fetched
AllDiscoveredFetched ==
    \A i \in 1..Len(folders) :
        _folder_id_of(folders[i]) # "" => _folder_id_of(folders[i]) \in FetchedFolders

C17_SeenIffAccepted == seen_item_ids_global = AcceptedIds

\* the page fetches issued for the pair (fid, sort_type)
FetchesOf(fid, sort_type) ==
    {i \in 1..Len(calls.content) :
        calls.content[i].fid = fid /\ calls.content[i].sortType = sort_type}

\* C18: in --all mode with a page cap M > 0, at most M page fetches are
\* issued for a (folder, sortType) pair, for the pages start .. start + M - 1,
\* whatever the start page and the answers of the service.
C18_PageCap ==
    (AllPages /\ args.max_pages > 0) =>
        \A i \in 1..Len(calls.content) :
            LET c == calls.content[i] IN
            /\ Cardinality(FetchesOf(c.fid, c.sortType)) <= args.max_pages
            /\ c.pageIndex >= args.page
            /\ c.pageIndex < args.page + args.max_pages

\* a pair that started at page 3 with a cap of 2 pages ended after page 4,
\* which still brought a new identity, with no total page count known
C18_Witness ==
    /\ AllPages /\ args.max_pages = 2 /\ args.page = 3
    /\ pc = "end_pair" /\ hist.done /\ hist.fresh
    /\ total_pages = 0 /\ no_new_streak = 0
    /\ Len(calls.content) = 2 /\ Last(calls.content).pageIndex = 4

\* C19: in --all mode with a page cap M > 0 the run terminates, whatever the
\* service answers, as long as every gateway call returns.
C19_Terminates == (AllPages /\ args.max_pages > 0) ~> (pc = "exit")

\* a capped run ended normally although each of its two pages brought a new
\* identity and no total page count was reported
C19_Witness ==
    /\ AllPages /\ args.max_pages = 2
    /\ pc = "exit" /\ exit_status = 0
    /\ Len(calls.content) = 2
    /\ hist.done /\ hist.fresh /\ hist.prev_fresh
    /\ total_pages = 0 /\ ~stop_everything

\* C20 as stated: when a positive total page count T is known for the pair,
\* no page fetched for the pair has an index above max(T, start page).
C20_EverFetched ==
    (AllPages /\ total_pages > 0 /\ pc \in {"page_loop", "items", "end_pair"}) =>
        \A i \in FetchesOf(CurrentFolder[1], CurrentSort) :
            calls.content[i].pageIndex <= Max(total_pages, args.page)

\* C20: once a positive total page count T is known for the pair (the first
\* positive report, which later reports do not change), a page whose index is
\* at or above T is the last page of the pair, and every page fetched from
\* then on has an index of at most T.
C20_TotalPages ==
    [][(AllPages /\ total_pages > 0) =>
        /\ (calls'.content # calls.content =>
              /\ Last(calls'.content).pageIndex <= total_pages
              /\ Last(calls'.content).pageIndex <= Max(total_pages, args.page))
        /\ (AtPageEnd /\ page_index >= total_pages =>
              pc' = "end_pair" /\ page_index' = page_index)
        /\ (pc \in {"page_loop", "items"} => total_pages' = total_pages)]_vars

\* the total page count 2 was reported with page 1, and the pair ended after
\* page 2 although that page brought a new identity
C20_Witness ==
    /\ AllPages /\ total_pages = 2 /\ args.page = 1
    /\ pc = "end_pair" /\ hist.done /\ hist.fresh
    /\ Len(calls.content) = 2 /\ page_index = 2
    /\ args.max_pages = 0 /\ no_new_streak = 0 /\ ~stop_everything

\* the page fetched last was fetched with success
FetchedOk == calls.content # <<>> /\ Last(calls.content).code = 200

\* the pair at hand has just ended on a page without raw items
EmptyPage == pc = "end_pair" /\ FetchedOk /\ hist.n = 0 /\ ~hist.done

\* another (folder, sortType) pair follows the pair at hand in the loops
HasLaterPair == si < Len(active_sort_types) \/ fi < Len(export_folders)

\* the loops move to the pair that follows the pair at hand
ToPairAfter ==
    /\ pc' = "main_loop"
    /\ IF si < Len(active_sort_types) THEN fi' = fi /\ si' = si + 1
       ELSE fi' = fi + 1 /\ si' = 1

PosF(fid) == CHOOSE k \in 1..Len(export_folders) : export_folders[k][1] = fid
PosS(st) == CHOOSE k \in 1..Len(active_sort_types) : active_sort_types[k] = st

\* C22: in --all mode the page fetches follow the folders in the selected
\* order and, within a folder, the sort types in the configured order: a
\* fetch of a pair is never followed by a fetch of an earlier folder, or of
\* an earlier sort type of the same folder, so that the fetches of a pair are
\* contiguous.
C22_LoopOrder ==
    AllPages =>
        \A i, j \in 1..Len(calls.content) :
            i < j =>
                LET a == calls.content[i]
                    b == calls.content[j]
                IN \/ PosF(a.fid) < PosF(b.fid)
                   \/ PosF(a.fid) = PosF(b.fid) /\ PosS(a.sortType) <= PosS(b.sortType)

\* with two folders and the sort types 0 and 1, a page was fetched for
\* (f1, 0), then (f1, 1), then (f2, 0), then (f2, 1)
C22_Witness ==
    /\ AllPages /\ active_sort_types = <<0, 1>>
    /\ Len(calls.content) = 4
    /\ [i \in 1..4 |-> <<calls.content[i].fid, calls.content[i].sortType>>]
         = << <<"f1", 0>>, <<"f1", 1>>, <<"f2", 0>>, <<"f2", 1>> >>
    /\ FetchedOk

\* the fetches i - 1 and i were issued for the same (folder, sortType) pair
SamePairAsBefore(i) ==
    /\ i > 1
    /\ calls.content[i].fid = calls.content[i - 1].fid
    /\ calls.content[i].sortType = calls.content[i - 1].sortType

\* C23: the first page fetch of a pair asks for the start page (--page), and
\* every further fetch of the pair asks for the page after the one asked for
\* before, whatever page index the responses carry.
C23_PageSequence ==
    \A i \in 1..Len(calls.content) :
        calls.content[i].pageIndex =
            IF SamePairAsBefore(i) THEN calls.content[i - 1].pageIndex + 1 ELSE args.page

\* a pair that started at page 3 asked for the pages 3, 4 and 5, and the
\* response to the last request reports page index 1
C23_Witness ==
    /\ AllPages /\ args.page = 3
    /\ Len(calls.content) = 3
    /\ SamePairAsBefore(2) /\ SamePairAsBefore(3)
    /\ page_index = 5 /\ Last(calls.content).pageIndex = 5
    /\ FetchedOk /\ hist.server_page_index = 1 /\ hist.n > 0

\* the run is between two pairs, or enters one
BetweenPairs == pc \in {"end_pair", "returned", "main_loop"}

\* C24: the traversal of a pair starts at the start page with no total page
\* count, a streak of 0 and an empty per-folder seen set; the steps that end
\* a pair and start the next leave the global seen set and the word cache as
\* they are, and no step of the run takes an identity out of the global seen
\* set or an entry out of the word cache.
C24_PairReset ==
    [][/\ (pc = "main_loop" /\ pc' = "page_loop" =>
              /\ page_index' = args.page
              /\ total_pages' = 0
              /\ no_new_streak' = 0
              /\ seen_item_ids_in_folder' = {})
       /\ (BetweenPairs => UNCHANGED <<seen_item_ids_global, word_cache>>)
       /\ seen_item_ids_global \subseteq seen_item_ids_global'
       /\ \A w \in DOMAIN word_cache :
              w \in DOMAIN word_cache' /\ word_cache'[w] = word_cache[w]]_vars

\* a second pair starts at page 1 with an empty per-folder seen set after
\* the first pair went to page 2 and accepted a sentence; the global seen set
\* and the word cache still hold what the first pair put there
C24_Witness ==
    /\ AllPages /\ pc = "page_loop" /\ hist = NoHist
    /\ Len(calls.content) = 2 /\ Last(calls.content).pageIndex = 2
    /\ page_index = 1 /\ total_pages = 0 /\ no_new_streak = 0
    /\ seen_item_ids_in_folder = {}
    /\ seen_item_ids_global = {ItemIdS(ItemS1)}
    /\ "w" \in DOMAIN word_cache
    /\ printed_total = 1

\* the jp of a sentence target: its title or, when the title is empty, its
\* notation title, without the surrounding blanks
JpText(t) == Strip(IF t.title # "" THEN t.title ELSE t.notationTitle)

\* the items of the account a record can come from
SourcesOf(r) == {it \in library : it.isDict /\ ItemIdS(it) = r.id}

\* the step at hand accepts a record
Accepts == accepted' # accepted

\* C25: every accepted sentence-like record (103 or 120 alike) has a
\* non-empty jp, which is the title of its item or, when the title is empty,
\* the notation title; every accepted word record has a non-empty spell or a
\* non-empty excerpt; a classified sentence whose jp is empty, and a
\* classified word that has neither spell nor excerpt after resolution,
\* yield no record.
C25_NonEmpty ==
    [][/\ \A r \in AcceptedRecords' :
            /\ (r.targetType \in {103, 120} =>
                  r.jp # "" /\ \E it \in SourcesOf(r) : r.jp = JpText(it.target))
            /\ (r.targetType = 102 => r.spell # "" \/ r.excerpt # "")
       /\ (AtItem /\ Classified(Head(items)) =>
            LET it == Head(items)
                t == it.target
            IN /\ (it.targetType \in {103, 120} /\ JpText(t) = "" => ~Accepts)
               /\ (it.targetType = 102 /\ Strip(Or(t.spell, t.title)) = ""
                     /\ Strip(t.excerpt) = ""
                     /\ (t.objectId = "" \/ FailedLookup(word_cache', t.objectId))
                     => ~Accepts))]_vars

\* a page of the word ItemW1 and the voice sentence ItemS3 is done: the word,
\* whose lookup failed, has no record although its identity is in the global
\* seen set, and the sentence was accepted with its notation title as jp
C25_Witness ==
    /\ AtPageEnd
    /\ hist.page = {ItemW1, ItemS3}
    /\ ItemIdS(ItemW1) \in seen_item_ids_global \ AcceptedIds
    /\ \E r \in AcceptedRecords : r.targetType = 120 /\ r.jp = "nt3"
    /\ printed_total = 1

\* the inline fields of a word target, without the surrounding blanks
InlineOf(t) ==
    [spell |-> Strip(IF t.spell # "" THEN t.spell ELSE t.title), pron |-> Strip(t.pron),
     accent |-> Strip(t.accent), excerpt |-> Strip(t.excerpt)]

\* the word target has an id and lacks its inline spell or its inline pron
Incomplete(t) == t.objectId # "" /\ (InlineOf(t).spell = "" \/ InlineOf(t).pron = "")

WordFieldNames == {"spell", "pron", "accent", "excerpt"}

\* C26: the step that classifies a word item (102) calls the word-detail
\* endpoint or changes the word cache only if the item has an id and lacks
\* its inline spell or pron; each of spell, pron, accent and excerpt of the
\* record is the inline value when that is non-empty, and otherwise the value
\* of the cache entry when the cache was consulted, and empty when not.
C26_InlineFirst ==
    [][(AtItem /\ Classified(Head(items)) /\ Head(items).targetType = 102) =>
        LET t == Head(items).target
            inline == InlineOf(t)
            resolved == IF Incomplete(t) THEN WordFields(word_cache'[t.objectId])
                        ELSE NoFields
        IN /\ (calls'.word # calls.word \/ word_cache' # word_cache => Incomplete(t))
           /\ (Incomplete(t) => t.objectId \in DOMAIN word_cache')
           /\ \A r \in AcceptedRecords' :
                r.id = ItemIdS(Head(items)) =>
                    \A f \in WordFieldNames :
                        r[f] = IF inline[f] # "" THEN inline[f] ELSE resolved[f]]_vars

\* the word ItemW3 was accepted with its inline spell and excerpt and with
\* the pron and accent of the looked-up entry, and the word ItemW4, which has
\* no id, with its excerpt only and without a call
C26_Witness ==
    /\ AtPageEnd
    /\ \E r \in AcceptedRecords :
          /\ r.id = ItemIdS(ItemW3)
          /\ r.spell = "sp3" /\ r.pron = "pr" /\ r.accent = "ac" /\ r.excerpt = "ex3"
    /\ \E r \in AcceptedRecords :
          /\ r.id = ItemIdS(ItemW4)
          /\ r.spell = "" /\ r.pron = "" /\ r.excerpt = "ex4"
    /\ calls.word = SetToBag({"g"})

\* the bodies the service can answer a function call of this run with; the
\* set depends on the command line and the account only, which no step
\* changes
AllBodies == FoldersBodies \cup ContentBodies(library, args.count)

\* the folder-discovery call, the page fetch issued by the step at hand
NewFolderCall == calls'.folders # calls.folders
NewPageFetch == calls'.content # calls.content

C28_Immutable ==
    [][JsonMode =>
        /\ \A id \in DOMAIN results_by_id :
              id \in DOMAIN results_by_id' /\ results_by_id'[id] = results_by_id[id]
        /\ \A id \in DOMAIN results_by_id' \ DOMAIN results_by_id :
              /\ id \notin seen_item_ids_global
              /\ AtItem /\ id = ItemIdS(Head(items))
              /\ results_by_id'[id].folder = CurrentFolder
              /\ results_by_id'[id].sortType = CurrentSort
              /\ results_by_id'[id].rec.id = id]_vars

\* the sentence ItemS1 was recorded under (f1, 0); the pair (f2, 1) returned
\* it again and is done, and the entry still names (f1, 0)
C28_Witness ==
    /\ JsonMode /\ AllPages
    /\ ItemIdS(ItemS1) \in DOMAIN results_by_id
    /\ results_by_id[ItemIdS(ItemS1)].folder[1] = "f1"
    /\ results_by_id[ItemIdS(ItemS1)].sortType = 0
    /\ pc = "end_pair" /\ hist.done /\ ItemS1 \in hist.page
    /\ CurrentFolder[1] = "f2" /\ CurrentSort = 1
    /\ Cardinality(DOMAIN results_by_id) = 2

\* C29: in --json mode the count of accepted records equals the number of
\* entries of the result mapping at every point of the run, and the document
\* in the output file has printedTotal = uniqueItems = the number of its
\* entries.
C29_CountsAgree ==
    JsonMode =>
        /\ printed_total = Cardinality(DOMAIN results_by_id)
        /\ (json_file.exists =>
              /\ json_file.doc.printedTotal = json_file.doc.uniqueItems
              /\ json_file.doc.uniqueItems = Cardinality(DOMAIN json_file.doc.itemsById))

\* a --json run ended normally with one record in the document, of a page
\* of two identities one of which yielded no record
C29_Witness ==
    /\ JsonMode /\ exit_status = 0
    /\ json_file.exists
    /\ json_file.doc.printedTotal = 1 /\ json_file.doc.uniqueItems = 1
    /\ Cardinality(seen_item_ids_global) = 2
    /\ hist.n = 2

\* the threshold of the streak stop: the configured value, at least 1
Threshold == IF args.stop_after_no_new >= 1 THEN args.stop_after_no_new ELSE 1

\* C30: in --all mode, after a page that did not stop the run, the pair ends
\* whenever the streak of pages without new identity has reached
\* max(1, --stop-after-no-new), and goes on to the next page when the streak
\* is below it and neither the total page count nor the page cap ends the
\* pair; the streak never exceeds the threshold; with a configured value of 0
\* or below the pair ends after the first page without new identity.
C30_StreakThreshold ==
    [][/\ no_new_streak' <= Threshold
       /\ (AtPageEnd /\ AllPages /\ ~stop_everything =>
            /\ (no_new_streak' >= Threshold => pc' = "end_pair" /\ page_index' = page_index)
            /\ (no_new_streak' < Threshold /\ ~TotalReached /\ ~CapReached =>
                  pc' = "page_loop" /\ page_index' = page_index + 1)
            /\ (args.stop_after_no_new <= 0 /\ ~hist.fresh => pc' = "end_pair"))]_vars

\* with --stop-after-no-new 0 the pair went on after a first page with a new
\* identity and ended after its second page, the first without new identity,
\* with no total page count and no page cap
C30_Witness ==
    /\ AllPages /\ args.stop_after_no_new = 0
    /\ pc = "end_pair" /\ hist.done /\ ~hist.fresh /\ hist.prev_fresh
    /\ hist.n > 0
    /\ no_new_streak = 1
    /\ Len(calls.content) = 2
    /\ total_pages = 0 /\ args.max_pages = 0 /\ ~stop_everything

\* the run is in single-page mode (no --all)
OnePage == ~args.fetch_all

\* the most records a single-page run accepts
LimitCap == IF args.limit >= 1 THEN args.limit ELSE 1

\* the single-page run fetches at most one page, of the first export folder,
\* with the sort type of --sort-type and the start page; it never sets the
\* stop flag, never uses the per-folder seen set, and accepts at most
\* max(1, --limit) records
OnePageBounds ==
    /\ Len(calls.content) <= 1
    /\ \A i \in 1..Len(calls.content) :
          /\ calls.content[i].fid = export_folders[1][1]
          /\ calls.content[i].sortType = args.sort_type
          /\ calls.content[i].pageIndex = args.page
    /\ ~stop_everything
    /\ seen_item_ids_in_folder = {}
    /\ printed_total <= LimitCap
    /\ BagCardinality(accepted) <= LimitCap

\* C31 as stated: a single-page run that ends normally has fetched exactly
\* one page.
C31_ExactlyOne ==
    OnePage =>
        /\ OnePageBounds
        /\ (exit_status = 0 => Len(calls.content) = 1)

\* C31: a single-page run stays within the bounds above, and when it ends
\* normally it has fetched exactly one page if the selected folder has an id,
\* and no page if the selected folder has none.
C31_OnePage ==
    OnePage =>
        /\ OnePageBounds
        /\ (exit_status = 0 =>
              Len(calls.content) = IF export_folders[1][1] # "" THEN 1 ELSE 0)

\* a single-page run with --limit 0, --expected 1 and --sort-types 1..0 ended
\* normally after one page of two sentences, fetched with sort type 0, of
\* which it accepted the first
C31_Witness ==
    /\ OnePage /\ exit_status = 0
    /\ args.limit = 0 /\ args.expected = 1 /\ args.sort_types = <<"1..0">>
    /\ Len(calls.content) = 1 /\ calls.content[1].sortType = 0
    /\ hist.page = {ItemS1, ItemS2}
    /\ printed_total = 1
    /\ Len(folders) = 3


-----------------------------------------------------------------------------
(* C32: the total page count of a pair is set once *)

InsidePair == pc \in {"page_loop", "items"}

\* C32: within a (folder, sortType) pair the known total page count changes
\* only at a successful page fetch made while it is unknown, and then to a
\* positive page count; once known it stays what it is at every step of the
\* pair, and a later successful fetch of the pair leaves it unchanged
\* whatever totalPage that response reports: another count, 0, none, or a
\* text that is not a number.
C32_TotalPagesSetOnce ==
    [][InsidePair =>
        /\ (total_pages # 0 => total_pages' = total_pages)
        /\ (NewPageFetch /\ FetchedOk' /\ total_pages # 0 =>
              /\ hist'.late_total \in {<<tp>> : tp \in {"", "0", "1", "2", "x"}}
              /\ total_pages' = total_pages)
        /\ (total_pages' # total_pages =>
              /\ NewPageFetch /\ FetchedOk'
              /\ total_pages = 0
              /\ total_pages' \in {1, 2})]_vars

\* page 1 of the pair reported 2 pages, page 2 of the same pair reported 1,
\* and the count is still 2 when the pair ends
C32_Witness ==
    /\ pc = "end_pair" /\ hist.done
    /\ Len(calls.content) = 2 /\ FetchedOk
    /\ calls.content[1].fid = calls.content[2].fid
    /\ calls.content[1].sortType = calls.content[2].sortType
    /\ calls.content[2].pageIndex = 2
    /\ hist.late_total = <<"1">>
    /\ total_pages = 2

====
